---- MODULE Spec2Model ----
(***************************************************************************)
(* Model of Coinjoin.py: the rule predicates, the short-circuiting         *)
(* classifier is_coinjoin_like and the batch runner analyze_transactions.  *)
(*                                                                         *)
(* Conventions.  A Python value that may be absent (dict.get returning     *)
(* None) is a sequence of length 0 or 1: <<>> is None, <<v>> is v.  A      *)
(* function's outcome is "True", "False" or the name of the exception it   *)
(* raises.  Every rule returns an effect [ret, log, csv]: its outcome, the *)
(* messages log_debug printed and appended to the log file, and the rows   *)
(* it appended to the top-10 CSV file.  The timestamp log_debug prepends   *)
(* is left out of the messages.                                            *)
(***************************************************************************)
EXTENDS Integers, Sequences, FiniteSets

VARIABLES
    tx,           \* the record is_coinjoin_like (or a rule) is called on
    debug,        \* the debug argument of the call
    fn,           \* the function called: position of the caller
    pc,           \* "call" before the call, "done" after it; batch: "open", "loop", "done"
    result,       \* outcome of the last call: "none", "True", "False" or an exception
    console,      \* lines printed
    logFile,      \* lines appended to log_file
    top10Exists,  \* os.path.exists(top10_file)
    top10File,    \* rows of top10_file
    feed,         \* lines of file_path
    feedFound,    \* whether file_path can be opened
    lineNo,       \* lines of the feed consumed so far
    coinjoinExists, \* os.path.exists(coinjoin_file)
    coinjoinFile, \* rows of coinjoin_file
    results,      \* analyze_transactions' results list
    coinjoin_count, \* analyze_transactions' counter
    calls         \* outcomes of the is_coinjoin_like calls made, in call order

vars == <<tx, debug, fn, pc, result, console, logFile, top10Exists, top10File,
          feed, feedFound, lineNo, coinjoinExists, coinjoinFile, results,
          coinjoin_count, calls>>

sinks == <<console, logFile, top10Exists, top10File>>

batchVars == <<feed, feedFound, lineNo, coinjoinExists, coinjoinFile, results,
               coinjoin_count, calls>>

\* ---------------------------------------------------------------- bounds

SmallMax == 7
MaxGroup == 5
MaxLines == 3

\* ---------------------------------------------------------------- helpers

None == <<>>

Some(v) == <<v>>

Eff(ret, log, csv) == [ret |-> ret, log |-> log, csv |-> csv]

RECURSIVE Pow2(_)
Pow2(k) == IF k = 0 THEN 1 ELSE 2 * Pow2(k - 1)

\* int(math.log2(n)) for n >= 1
RECURSIVE Log2Int(_)
Log2Int(n) == IF n < 2 THEN 0 ELSE 1 + Log2Int(n \div 2)

Min(a, b) == IF a < b THEN a ELSE b

Max(a, b) == IF a > b THEN a ELSE b

Range(s) == {s[i] : i \in DOMAIN s}

Take(s, k) == IF Len(s) <= k THEN s ELSE SubSeq(s, 1, k)

\* sum(s), halving s
RECURSIVE SumSeq(_)
SumSeq(s) ==
    IF s = <<>> THEN 0
    ELSE IF Len(s) = 1 THEN s[1]
    ELSE LET h == Len(s) \div 2
         IN  SumSeq(SubSeq(s, 1, h)) + SumSeq(SubSeq(s, h + 1, Len(s)))

\* the elements of a set of numbers, largest first: an element comes right
\* after the elements larger than it
SortedDesc(S) ==
    LET larger == [x \in S |-> Cardinality({y \in S : y > x})]
    IN  [i \in 1..Cardinality(S) |-> CHOOSE x \in S : larger[x] = i - 1]

\* [x for s in seqs for x in s], halving seqs
RECURSIVE Flatten(_)
Flatten(seqs) ==
    IF Len(seqs) = 0 THEN <<>>
    ELSE IF Len(seqs) = 1 THEN seqs[1]
    ELSE LET h == Len(seqs) \div 2
         IN  Flatten(SubSeq(seqs, 1, h)) \o Flatten(SubSeq(seqs, h + 1, Len(seqs)))

\* index of the first element of s that already occurred before it, 0 if none
FirstRepeat(s) ==
    IF Cardinality(Range(s)) = Len(s) THEN 0
    ELSE CHOOSE j \in DOMAIN s :
            /\ \E i \in 1..(j - 1) : s[i] = s[j]
            /\ \A k \in 1..(j - 1) : \A i \in 1..(k - 1) : s[i] # s[k]

\* ---------------------------------------------------------------- log_debug

log_debug_always(message, dbg) == <<message>>

log_debug(message, dbg) == IF dbg THEN <<message>> ELSE <<>>

\* ---------------------------------------------------------------- rule predicates

has_minimum_inputs_two(vin, dbg) ==
    IF Len(vin) < 2
    THEN Eff("False", log_debug(<<"Not CoinJoin: Less than 3 inputs.">>, dbg), <<>>)
    ELSE Eff("True", log_debug(<<"Rule 1 passed", Len(vin)>>, dbg), <<>>)

has_minimum_inputs(vin, dbg) ==
    IF Len(vin) < 3
    THEN Eff("False", log_debug(<<"Not CoinJoin: Less than 3 inputs.">>, dbg), <<>>)
    ELSE Eff("True", log_debug(<<"Rule 1 passed", Len(vin)>>, dbg), <<>>)

has_sufficient_outputs_cutoff(vin, vout, dbg) ==
    IF Len(vout) = 0 THEN Eff("ValueError", <<>>, <<>>)
    ELSE IF Log2Int(Len(vout)) < 5
    THEN IF Len(vout) < Len(vin)
         THEN Eff("False", log_debug(<<"Not CoinJoin: The output quantity is less than the input quantity.">>, dbg), <<>>)
         ELSE Eff("True", log_debug(<<"Rule 2 passed", Len(vout)>>, dbg), <<>>)
    ELSE IF 2 * Len(vout) < Len(vin)
         THEN Eff("False", log_debug(<<"Not CoinJoin: The output quantity is less than half of the input quantity.">>, dbg), <<>>)
         ELSE Eff("True", log_debug(<<"Rule 2 passed", Len(vout)>>, dbg), <<>>)

\* math.log2(0) raises ValueError; len(vout) < len(vin) / 2 is a float
\* comparison, the same as 2 * len(vout) < len(vin)
has_sufficient_outputs(vin, vout, dbg) ==
    IF Len(vout) = 0 THEN Eff("ValueError", <<>>, <<>>)
    ELSE IF Log2Int(Len(vout)) + 1 < 5
    THEN IF Len(vout) < Len(vin)
         THEN Eff("False", log_debug(<<"Not CoinJoin: The output quantity is less than the input quantity.">>, dbg), <<>>)
         ELSE Eff("True", log_debug(<<"Rule 2 passed", Len(vout)>>, dbg), <<>>)
    ELSE IF 2 * Len(vout) < Len(vin)
         THEN Eff("False", log_debug(<<"Not CoinJoin: The output quantity is less than half of the input quantity.">>, dbg), <<>>)
         ELSE Eff("True", log_debug(<<"Rule 2 passed", Len(vout)>>, dbg), <<>>)

\* [out.get("value") for out in vout if out.get("value") is not None]
output_values(vout) == Flatten([i \in DOMAIN vout |-> vout[i].value])

\* Counter(output_values)
value_counts(values) ==
    [v \in Range(values) |-> Cardinality({i \in DOMAIN values : values[i] = v})]

target(vout) == Max(Min(Log2Int(Len(vout)), 5), 3)

top10_above(vout) ==
    LET counts == value_counts(output_values(vout))
        sorted_value_counts ==
            LET keys == SortedDesc(DOMAIN counts)
            IN  [i \in DOMAIN keys |-> <<keys[i], counts[keys[i]]>>]
    IN  Take(SelectSeq(sorted_value_counts, LAMBDA p : p[2] > target(vout)), 10)

top10(vout) ==
    LET counts == value_counts(output_values(vout))
        sorted_value_counts ==
            LET keys == SortedDesc(DOMAIN counts)
            IN  [i \in DOMAIN keys |-> <<keys[i], counts[keys[i]]>>]
    IN  Take(SelectSeq(sorted_value_counts, LAMBDA p : p[2] >= target(vout)), 10)

\* the rows has_repeated_output_value appends: the header when the file did
\* not exist, then the transaction's row
top10_rows(vout, vin, transaction_hash, top, exists) ==
       (IF exists THEN <<>> ELSE <<[kind |-> "header"]>>)
    \o <<[kind |-> "row",
          transaction_hash |-> transaction_hash,
          number_of_input |-> Len(vin),
          number_of_output |-> Len(vout),
          total_btc_amount |-> SumSeq(output_values(vout)),
          top10_data |-> top]>>

has_repeated_output_value_no_row(vout, vin, transaction_hash, dbg, exists) ==
    IF Len(vout) < 3
    THEN Eff("False", log_debug(<<"Not CoinJoin: Insufficient outputs for meaningful analysis.">>, dbg), <<>>)
    ELSE LET top == top10(vout)
    IN  IF top # <<>>
    THEN Eff("True",
                log_debug(<<"CoinJoin-like detected: Top 10 output values exceeding threshold", target(vout)>>, dbg)
             \o Flatten([i \in DOMAIN top |->
                    log_debug(<<"Value, Count", top[i][1], top[i][2]>>, TRUE)]),
             <<>>)
    ELSE Eff("False", log_debug(<<"Not CoinJoin: No output value meets the threshold", target(vout)>>, FALSE), <<>>)

\* the per-value lines are logged with debug hard-wired to True (line 73),
\* the last message with debug hard-wired to False (line 102)
has_repeated_output_value(vout, vin, transaction_hash, dbg, exists) ==
    IF Len(vout) < 3
    THEN Eff("False", log_debug(<<"Not CoinJoin: Insufficient outputs for meaningful analysis.">>, dbg), <<>>)
    ELSE LET top == top10(vout)
    IN  IF top # <<>>
    THEN Eff("True",
                log_debug(<<"CoinJoin-like detected: Top 10 output values exceeding threshold", target(vout)>>, dbg)
             \o Flatten([i \in DOMAIN top |->
                    log_debug(<<"Value, Count", top[i][1], top[i][2]>>, TRUE)]),
             top10_rows(vout, vin, transaction_hash, top, exists))
    ELSE Eff("False", log_debug(<<"Not CoinJoin: No output value meets the threshold", target(vout)>>, FALSE), <<>>)

has_unique_output_addresses(vout, dbg) ==
    LET all == Flatten([i \in DOMAIN vout |-> vout[i].addresses])
        j == FirstRepeat(all)
    IN  IF j # 0
        THEN Eff("False", log_debug(<<"Not CoinJoin: Duplicate address found", all[j]>>, dbg), <<>>)
        ELSE Eff("True", log_debug(<<"Rule passed: All output addresses are unique.">>, dbg), <<>>)

has_reasonable_output_count_strict(vin, vout, dbg) ==
    IF Len(vout) >= Len(vin) * 2
    THEN Eff("False", log_debug(<<"Not CoinJoin: Output count exceeds 2x input count", Len(vout), Len(vin)>>, dbg), <<>>)
    ELSE Eff("True", log_debug(<<"Rule 5 passed: Reasonable output count", Len(vout)>>, dbg), <<>>)

has_reasonable_output_count(vin, vout, dbg) ==
    IF Len(vout) > Len(vin) * 2
    THEN Eff("False", log_debug(<<"Not CoinJoin: Output count exceeds 2x input count", Len(vout), Len(vin)>>, dbg), <<>>)
    ELSE Eff("True", log_debug(<<"Rule 5 passed: Reasonable output count", Len(vout)>>, dbg), <<>>)

has_op_return_output(vout, dbg) ==
    LET hits == {i \in DOMAIN vout :
                    vout[i].value = Some(0) /\ vout[i].type = Some("nonstandard")}
    IN  IF hits # {}
        THEN LET i == CHOOSE h \in hits : \A k \in hits : h <= k
             IN  Eff("False", log_debug(<<"CoinJoin-like detected: Found OP_RETURN output", vout[i]>>, dbg), <<>>)
        ELSE Eff("True", log_debug(<<"Rule 6 passed: No OP_RETURN outputs found.">>, dbg), <<>>)

has_not_only_one_input_addresses(vin, dbg) ==
    LET input_addresses == Flatten([i \in DOMAIN vin |-> vin[i].addresses])
        unique_addresses == Range(input_addresses)
    IN  IF Cardinality(unique_addresses) <= 1
        THEN Eff("False", log_debug(<<"Not CoinJoin: All input addresses are the same.">>, dbg), <<>>)
        ELSE Eff("True", log_debug(<<"Rule 7 passed: Input addresses are not all the same.">>, dbg), <<>>)

\* value_to_addresses holds the (value, address) pairs seen so far; inputs
\* without a value are passed over
has_unique_input_addresses_by_value(vin, dbg) ==
    LET pairs == Flatten([i \in DOMAIN vin |->
                    IF vin[i].value = None THEN <<>>
                    ELSE [k \in DOMAIN vin[i].addresses |-> <<vin[i].value[1], vin[i].addresses[k]>>]])
        j == FirstRepeat(pairs)
    IN  IF j # 0
        THEN Eff("False", log_debug(<<"Not CoinJoin: Duplicate address found for value", pairs[j][2], pairs[j][1]>>, dbg), <<>>)
        ELSE Eff("True", log_debug(<<"Rule passed: All addresses are unique for the same value.">>, dbg), <<>>)

\* ---------------------------------------------------------------- is_coinjoin_like

\* the rules in the order is_coinjoin_like calls them
RuleOrder ==
    <<"has_minimum_inputs", "has_not_only_one_input_addresses",
      "has_sufficient_outputs", "has_reasonable_output_count",
      "has_op_return_output", "has_unique_output_addresses",
      "has_unique_input_addresses_by_value", "has_repeated_output_value">>

\* one rule called as is_coinjoin_like calls it: vin = tx.get("inputs", []),
\* vout = tx.get("outputs", []), transaction_hash = tx.get("hash")
Rule(name, t, dbg, exists) ==
    CASE name = "has_minimum_inputs" -> has_minimum_inputs(t.inputs, dbg)
      [] name = "has_not_only_one_input_addresses" -> has_not_only_one_input_addresses(t.inputs, dbg)
      [] name = "has_sufficient_outputs" -> has_sufficient_outputs(t.inputs, t.outputs, dbg)
      [] name = "has_reasonable_output_count" -> has_reasonable_output_count(t.inputs, t.outputs, dbg)
      [] name = "has_op_return_output" -> has_op_return_output(t.outputs, dbg)
      [] name = "has_unique_output_addresses" -> has_unique_output_addresses(t.outputs, dbg)
      [] name = "has_unique_input_addresses_by_value" -> has_unique_input_addresses_by_value(t.inputs, dbg)
      [] name = "has_repeated_output_value" ->
            has_repeated_output_value(t.outputs, t.inputs, t.hash, dbg, exists)

\* "if not rule(...): return False", rule after rule; an exception a rule
\* raises leaves is_coinjoin_like at once
RECURSIVE ShortCircuit(_, _, _, _, _)
ShortCircuit(rules, t, dbg, exists, acc) ==
    IF rules = <<>> THEN Eff("True", acc.log, acc.csv)
    ELSE LET e == Rule(Head(rules), t, dbg, exists)
             now == Eff(e.ret, acc.log \o e.log, acc.csv \o e.csv)
         IN  IF e.ret # "True" THEN now
             ELSE ShortCircuit(Tail(rules), t, dbg, exists, now)

is_coinjoin_like(t, dbg, exists) ==
    ShortCircuit(RuleOrder, t, dbg, exists, Eff("True", <<>>, <<>>))

\* every rule of `order` evaluated, none skipped, and the booleans conjoined;
\* an exception a rule raises ends the evaluation
RECURSIVE EvalAll(_, _, _, _, _)
EvalAll(order, t, dbg, exists, acc) ==
    IF order = <<>> THEN acc
    ELSE LET e == Rule(Head(order), t, dbg, exists \/ acc.csv # <<>>)
             ret == IF e.ret \in {"True", "False"}
                    THEN (IF acc.ret = "True" THEN e.ret ELSE "False")
                    ELSE e.ret
             now == Eff(ret, acc.log \o e.log, acc.csv \o e.csv)
         IN  IF e.ret \notin {"True", "False"} THEN now
             ELSE EvalAll(Tail(order), t, dbg, exists, now)

\* orders the rules can be evaluated in: as called, reversed, and with the
\* output-side rules first
Orders ==
    { RuleOrder,
      [i \in 1..8 |-> RuleOrder[9 - i]],
      <<RuleOrder[3], RuleOrder[8], RuleOrder[4], RuleOrder[5],
        RuleOrder[6], RuleOrder[1], RuleOrder[2], RuleOrder[7]>> }

\* ---------------------------------------------------------------- records

InKinds == {"distinct", "same", "altSameValue", "altNoValue"}

OutKinds == {"plain", "oneGroup", "dataNonstandard", "dataNulldata", "noValue",
             "dupSameValue", "dupOtherValue"}

\* collection sizes: every small size, and the sizes around the powers of two
\* at which the rules change: at 16 outputs has_sufficient_outputs halves its
\* requirement (line 33), at 16 and 32 outputs the target of
\* has_repeated_output_value steps to 4 and 5, and from 64 outputs on the
\* target is capped at 5 (line 56)
Sizes == (0..SmallMax) \cup {Pow2(k) + d : k \in {4, 5, 6}, d \in {-1, 0, 1}}

\* 33 inputs are more than twice 16 outputs, 32 inputs are half of 64 outputs
InSizes == {m \in Sizes : m <= Pow2(5) + 1}

\* input i of a record's inputs
InputAt(i, kind) ==
    CASE kind = "distinct" -> [addresses |-> <<i>>, value |-> Some(100)]
      [] kind = "same" -> [addresses |-> <<1>>, value |-> Some(100 + i)]
      [] kind = "altSameValue" -> [addresses |-> <<1 + (i % 2)>>, value |-> Some(100)]
      [] kind = "altNoValue" -> [addresses |-> <<1 + (i % 2)>>, value |-> None]

\* output i of a record's n outputs; the values come in groups of g equal
\* ones, or ("oneGroup") g equal ones followed by values that occur once
OutputAt(i, n, kind, g) ==
    LET plain == [value |-> Some(IF kind = "oneGroup"
                                 THEN (IF i <= g THEN 1000 ELSE 1000 + i)
                                 ELSE 1000 + ((i - 1) \div g)),
                  addresses |-> <<1000 + i>>,
                  type |-> Some("pubkeyhash")]
    IN  CASE kind = "dataNonstandard" /\ i = 1 ->
                [value |-> Some(0), addresses |-> <<>>, type |-> Some("nonstandard")]
          [] kind = "dataNulldata" /\ i = 1 ->
                [value |-> Some(0), addresses |-> <<>>, type |-> Some("nulldata")]
          [] kind = "noValue" /\ i = 1 ->
                [value |-> None, addresses |-> <<1000 + i>>, type |-> None]
          [] kind = "dupSameValue" /\ i = 2 ->
                [plain EXCEPT !.addresses = <<1001>>]
          [] kind = "dupOtherValue" /\ i = n /\ n > 1 ->
                [plain EXCEPT !.addresses = <<1001>>]
          [] OTHER -> plain

MkTx(h, m, ik, n, ok, g) ==
    [hash |-> h,
     inputs |-> [i \in 1..m |-> InputAt(i, ik)],
     outputs |-> [i \in 1..n |-> OutputAt(i, n, ok, g)]]

\* ---------------------------------------------------------------- calls

Apply(e) ==
    /\ result' = e.ret
    /\ console' = console \o e.log
    /\ logFile' = logFile \o e.log
    /\ top10File' = top10File \o e.csv
    /\ top10Exists' = (top10Exists \/ e.csv # <<>>)

Init ==
    /\ \E m \in InSizes, ik \in InKinds, n \in Sizes, ok \in OutKinds, g \in 1..MaxGroup :
          tx = MkTx(Some("h1"), m, ik, n, ok, g)
    /\ debug = FALSE
    /\ fn = "none"
    /\ pc = "call"
    /\ result = "none"
    /\ console = <<>>
    /\ logFile = <<>>
    /\ top10Exists = FALSE
    /\ top10File = <<>>
    /\ feed = <<>>
    /\ feedFound = FALSE
    /\ lineNo = 0
    /\ coinjoinExists = FALSE
    /\ coinjoinFile = <<>>
    /\ results = <<>>
    /\ coinjoin_count = 0
    /\ calls = <<>>

\* is_coinjoin_like(tx, debug, log_file, top10_file)
Classify ==
    /\ pc = "call"
    /\ \E d \in BOOLEAN :
          /\ debug' = d
          /\ Apply(is_coinjoin_like(tx, d, top10Exists))
    /\ fn' = "is_coinjoin_like"
    /\ pc' = "done"
    /\ UNCHANGED <<tx, batchVars>>

\* has_sufficient_outputs(vin, vout) called on its own
CallSufficient ==
    /\ pc = "call"
    /\ Apply(has_sufficient_outputs(tx.inputs, tx.outputs, FALSE))
    /\ fn' = "has_sufficient_outputs"
    /\ pc' = "done"
    /\ UNCHANGED <<tx, debug, batchVars>>

\* has_repeated_output_value(vout, vin, transaction_hash, ...) called on its own
CallRepeated ==
    /\ pc = "call"
    /\ Apply(has_repeated_output_value(tx.outputs, tx.inputs, tx.hash, FALSE, top10Exists))
    /\ fn' = "has_repeated_output_value"
    /\ pc' = "done"
    /\ UNCHANGED <<tx, debug, batchVars>>

Next == Classify \/ CallSufficient \/ CallRepeated

Spec == Init /\ [][Next]_vars

\* ---------------------------------------------------------------- analyze_transactions

\* the records the lines of a feed hold
GoodTx1 == MkTx(Some("h1"), 3, "distinct", 3, "plain", 3)

GoodTx2 == MkTx(Some("h2"), 5, "distinct", 6, "oneGroup", 3)

NoHashTx == MkTx(None, 3, "distinct", 3, "plain", 3)

ZeroOutTx == MkTx(Some("h3"), 3, "distinct", 0, "plain", 1)

FewInputsTx == MkTx(Some("h4"), 2, "distinct", 3, "plain", 1)

\* a line of the feed: text json.loads rejects, JSON that is no object (a
\* list), or a JSON object
FeedLines ==
    {[kind |-> "garbage", tx |-> None], [kind |-> "array", tx |-> None]}
    \cup {[kind |-> "object", tx |-> Some(t)] :
            t \in {GoodTx1, GoodTx2, NoHashTx, ZeroOutTx, FewInputsTx}}

RECURSIVE Feeds(_)
Feeds(k) ==
    IF k = 0 THEN {<<>>}
    ELSE Feeds(k - 1) \cup {Append(f, l) : f \in {g \in Feeds(k - 1) : Len(g) = k - 1}, l \in FeedLines}

InitBatch ==
    /\ tx = MkTx(None, 0, "distinct", 0, "plain", 1)
    /\ debug \in BOOLEAN
    /\ fn = "analyze_transactions"
    /\ pc = "open"
    /\ result = "none"
    /\ console = <<>>
    /\ logFile = <<>>
    /\ top10Exists \in BOOLEAN
    /\ top10File = <<>>
    /\ feedFound \in BOOLEAN
    /\ feed \in (IF feedFound THEN Feeds(MaxLines) ELSE {<<>>})
    /\ lineNo = 0
    /\ coinjoinExists \in BOOLEAN
    /\ coinjoinFile = <<>>
    /\ results = <<>>
    /\ coinjoin_count = 0
    /\ calls = <<>>

\* the last statements of analyze_transactions: the total is logged and True
\* is returned
Return(log) ==
    LET all == log \o log_debug(<<"Total CoinJoin-like transactions", coinjoin_count>>, debug)
    IN  /\ console' = console \o all
        /\ logFile' = logFile \o all
        /\ result' = "True"
        /\ pc' = "done"

\* "except Exception as e", outside the loop over the lines: the loop is left
\* (no exception is raised after coinjoin_count is incremented)
Abort(exception, log) ==
    Return(log \o log_debug(<<"Unexpected error", exception>>, debug))

\* the coinjoin file is opened for appending and gets its header when it did
\* not exist; then the feed is opened
OpenFiles ==
    /\ pc = "open"
    /\ coinjoinFile' = coinjoinFile \o (IF coinjoinExists THEN <<>> ELSE <<[kind |-> "header"]>>)
    /\ coinjoinExists' = TRUE
    /\ UNCHANGED <<tx, debug, fn, top10Exists, top10File, feed, feedFound, lineNo,
                   results, coinjoin_count, calls>>
    /\ IF feedFound
       THEN /\ pc' = "loop"
            /\ UNCHANGED <<result, console, logFile>>
       ELSE Return(log_debug(<<"Error: File not found">>, debug))

\* a line json.loads rejects: JSONDecodeError, caught inside the loop
SkipUndecodableLine ==
    /\ pc = "loop" /\ lineNo < Len(feed)
    /\ feed[lineNo + 1].kind = "garbage"
    /\ lineNo' = lineNo + 1
    /\ console' = console \o log_debug(<<"Error decoding JSON on line", lineNo + 1>>, debug)
    /\ logFile' = logFile \o log_debug(<<"Error decoding JSON on line", lineNo + 1>>, debug)
    /\ UNCHANGED <<tx, debug, fn, pc, result, top10Exists, top10File, feed, feedFound,
                   coinjoinExists, coinjoinFile, results, coinjoin_count, calls>>

\* a line that parses to something other than an object: transaction.get
\* raises AttributeError inside is_coinjoin_like
NonObjectLine ==
    /\ pc = "loop" /\ lineNo < Len(feed)
    /\ feed[lineNo + 1].kind = "array"
    /\ lineNo' = lineNo + 1
    /\ Abort("AttributeError", <<>>)
    /\ UNCHANGED <<tx, debug, fn, top10Exists, top10File, feed, feedFound,
                   coinjoinExists, coinjoinFile, results, coinjoin_count, calls>>

\* a line holding an object: is_coinjoin_like(transaction, False, log_file,
\* top10_file), and on True the result, the count and the coinjoin row
ClassifyLine ==
    /\ pc = "loop" /\ lineNo < Len(feed)
    /\ feed[lineNo + 1].kind = "object"
    /\ LET t == feed[lineNo + 1].tx[1]
           e == is_coinjoin_like(t, FALSE, top10Exists)
           hit == e.ret = "True" /\ t.hash # None
       IN  /\ tx' = t
           /\ lineNo' = lineNo + 1
           /\ calls' = Append(calls, [hash |-> t.hash, ret |-> e.ret])
           /\ top10File' = top10File \o e.csv
           /\ top10Exists' = (top10Exists \/ e.csv # <<>>)
           /\ results' = IF hit
                         THEN Append(results, [hash |-> t.hash[1], line |-> lineNo + 1,
                                               is_coinjoin_like |-> TRUE])
                         ELSE results
           /\ coinjoin_count' = IF hit THEN coinjoin_count + 1 ELSE coinjoin_count
           /\ coinjoinFile' =
                 IF hit
                 THEN Append(coinjoinFile,
                             [kind |-> "row", transaction_hash |-> t.hash[1],
                              addresses |-> Flatten([i \in DOMAIN t.outputs |-> t.outputs[i].addresses])])
                 ELSE coinjoinFile
           /\ CASE e.ret = "False" ->
                     /\ console' = console \o e.log
                     /\ logFile' = logFile \o e.log
                     /\ UNCHANGED <<pc, result>>
                [] hit ->
                     /\ console' = console \o e.log \o log_debug(<<"Transaction is CoinJoin-like", t.hash[1]>>, debug)
                     /\ logFile' = logFile \o e.log \o log_debug(<<"Transaction is CoinJoin-like", t.hash[1]>>, debug)
                     /\ UNCHANGED <<pc, result>>
                [] e.ret = "True" /\ t.hash = None -> Abort("KeyError", e.log)
                [] OTHER -> Abort(e.ret, e.log)
    /\ UNCHANGED <<debug, fn, feed, feedFound, coinjoinExists>>

\* the feed is exhausted
EndOfFeed ==
    /\ pc = "loop" /\ lineNo = Len(feed)
    /\ Return(<<>>)
    /\ UNCHANGED <<tx, debug, fn, top10Exists, top10File, feed, feedFound, lineNo,
                   coinjoinExists, coinjoinFile, results, coinjoin_count, calls>>

NextBatch ==
    OpenFiles \/ SkipUndecodableLine \/ NonObjectLine \/ ClassifyLine \/ EndOfFeed

SpecBatch == InitBatch /\ [][NextBatch]_vars

\* ---------------------------------------------------------------- what the claims speak of

\* floor(log2(n)) for n >= 1, from its definition
FloorLog2(n) == CHOOSE k \in 0..n : Pow2(k) <= n /\ n < Pow2(k + 1)

ClaimTarget(n) == Max(Min(FloorLog2(n), 5), 3)

Occurrences(vout, v) == Cardinality({i \in DOMAIN vout : vout[i].value = Some(v)})

OutputValueSet(vout) == {vout[i].value[1] : i \in {k \in DOMAIN vout : vout[k].value # None}}

SomeValueReachesTarget(vout) ==
    /\ Len(vout) >= 1
    /\ LET t == ClaimTarget(Len(vout))
       IN  \E v \in OutputValueSet(vout) : Occurrences(vout, v) >= t

DistinctInputAddresses(vin) == UNION {Range(vin[i].addresses) : i \in DOMAIN vin}

InputSidePasses(t) ==
    Len(t.inputs) >= 3 /\ Cardinality(DistinctInputAddresses(t.inputs)) >= 2

SufficientOutputs(t) ==
    LET m == Len(t.inputs)
        n == Len(t.outputs)
    IN  (n < 16 /\ n >= m) \/ (n >= 16 /\ 2 * n >= m)

DataOnlyOutput(out) ==
    out.value = Some(0) /\ out.type \in {Some("nulldata"), Some("nonstandard")}

NoDataOnlyOutput(t) == \A i \in DOMAIN t.outputs : ~DataOnlyOutput(t.outputs[i])

NoAddressRecursWithinValue(vout) ==
    \A i, j \in DOMAIN vout :
        (i < j /\ vout[i].value = vout[j].value)
            => Range(vout[i].addresses) \cap Range(vout[j].addresses) = {}

NoOutputAddressRecurs(vout) ==
    LET all == Flatten([i \in DOMAIN vout |-> vout[i].addresses])
    IN  Cardinality(Range(all)) = Len(all)

NoInputAddressRecursWithinValue(vin) ==
    /\ \A i, j \in DOMAIN vin :
          (i < j /\ vin[i].value # None /\ vin[i].value = vin[j].value)
              => Range(vin[i].addresses) \cap Range(vin[j].addresses) = {}
    /\ \A i \in DOMAIN vin :
          vin[i].value # None => Cardinality(Range(vin[i].addresses)) = Len(vin[i].addresses)

Classified == pc = "done" /\ fn = "is_coinjoin_like"

\* the premises of C7 as the claim states them
StatedRulesMet(t) ==
    /\ InputSidePasses(t)
    /\ SufficientOutputs(t)
    /\ Len(t.outputs) <= 2 * Len(t.inputs)
    /\ NoDataOnlyOutput(t)
    /\ NoAddressRecursWithinValue(t.outputs)
    /\ SomeValueReachesTarget(t.outputs)

\* ---------------------------------------------------------------- claims

\* C1: a record with zero outputs that passes the input-side rules gets the
\* verdict false from is_coinjoin_like, never an exception.
C1_ZeroOutputsVerdictFalse ==
    (Classified /\ Len(tx.outputs) = 0 /\ InputSidePasses(tx)) => result = "False"

\* C2: evaluating all the rules is_coinjoin_like calls, in any order and
\* without short-circuit, and conjoining them gives the outcome of the
\* short-circuiting is_coinjoin_like: the same verdict, and no failure where
\* the other returns a verdict.
C2_OrderInvariance ==
    Classified =>
        \A order \in Orders :
            EvalAll(order, tx, debug, FALSE, Eff("True", <<>>, <<>>)).ret = result

C4_RepeatedValueThreshold ==
    /\ (pc = "done" /\ fn = "has_repeated_output_value")
          => (result = "True" <=> SomeValueReachesTarget(tx.outputs))
    /\ (Classified /\ result = "True") => SomeValueReachesTarget(tx.outputs)

C4_Witness ==
    /\ pc = "done" /\ fn = "has_repeated_output_value" /\ result = "True"
    /\ Len(tx.outputs) >= 64
    /\ \A v \in OutputValueSet(tx.outputs) :
          Occurrences(tx.outputs, v) <= ClaimTarget(Len(tx.outputs))

\* C5: for |outputs| >= 1, has_sufficient_outputs passes if and only if
\* (|outputs| < 16 and |outputs| >= |inputs|) or (|outputs| >= 16 and
\* 2*|outputs| >= |inputs|); the requirement switches exactly where
\* floor(log2(|outputs|)) + 1 reaches 5.
C5_SufficientOutputsThreshold ==
    (pc = "done" /\ fn = "has_sufficient_outputs" /\ Len(tx.outputs) >= 1)
        => /\ result \in {"True", "False"}
           /\ result = "True" <=> SufficientOutputs(tx)
           /\ Len(tx.outputs) < 16 <=> FloorLog2(Len(tx.outputs)) + 1 < 5

C5_Witness ==
    /\ pc = "done" /\ fn = "has_sufficient_outputs" /\ result = "True"
    /\ Len(tx.outputs) = 16 /\ Len(tx.inputs) > 16

\* C6: a record with an output of value 0 whose script type indicates a
\* null-data or non-standard payload gets the verdict false.
C6_DataOnlyOutputFails ==
    (Classified /\ ~NoDataOnlyOutput(tx)) => result = "False"

\* C7: a record that meets the stated rules (input count and diversity, output
\* sufficiency and ceiling, no data-only output, no address recurring among
\* outputs of the same value, a value occurring >= target times) gets the
\* verdict true.
C7_StatedRulesGiveTrue ==
    (Classified /\ StatedRulesMet(tx)) => result = "True"

\* C7 as amended: such a record gets the verdict true provided, in addition,
\* no address occurs more than once among all the outputs' addresses
\* (whatever the values) and no address occurs more than once among the
\* inputs that carry the same value.
C7_AllRulesGiveTrue ==
    (/\ Classified
     /\ StatedRulesMet(tx)
     /\ NoOutputAddressRecurs(tx.outputs)
     /\ NoInputAddressRecursWithinValue(tx.inputs)) => result = "True"

C7_Witness ==
    /\ Classified /\ result = "True"
    /\ Len(tx.inputs) = 5 /\ Cardinality(DistinctInputAddresses(tx.inputs)) = 5
    /\ Len(tx.outputs) = 6
    /\ Occurrences(tx.outputs, 1000) = 3
    /\ Cardinality(OutputValueSet(tx.outputs)) = 4

\* C8: whenever is_coinjoin_like returns true the record has at least 3
\* inputs, at least 2 distinct input addresses and |outputs| <= 2*|inputs|.
C8_GatesOnTrue ==
    (Classified /\ result = "True")
        => /\ InputSidePasses(tx)
           /\ Len(tx.outputs) <= 2 * Len(tx.inputs)

C8_Witness ==
    /\ Classified /\ result = "True"
    /\ Len(tx.outputs) = 2 * Len(tx.inputs)

\* the data rows of a CSV file
DataRows(file) == SelectSeq(file, LAMBDA r : r.kind = "row")

TrueCalls == SelectSeq(calls, LAMBDA c : c.ret = "True")

\* C9: analyze_transactions never aborts on a bad record: the line is skipped
\* and every later line of the feed is still classified and, when
\* CoinJoin-like, written to the coinjoin file.
C9_BatchNeverAborts ==
    (pc = "done" /\ feedFound)
        => /\ Len(calls) = Cardinality({i \in DOMAIN feed : feed[i].kind = "object"})
           /\ \A i \in DOMAIN feed :
                 (/\ feed[i].kind = "object"
                  /\ feed[i].tx[1].hash # None
                  /\ InputSidePasses(feed[i].tx[1])
                  /\ Len(feed[i].tx[1].outputs) > 0
                  /\ is_coinjoin_like(feed[i].tx[1], FALSE, TRUE).ret = "True")
                    => \E k \in DOMAIN DataRows(coinjoinFile) :
                          DataRows(coinjoinFile)[k].transaction_hash = feed[i].tx[1].hash[1]

\* C10: the data rows of the top-10 CSV file are, in call order, the
\* transactions of the is_coinjoin_like calls that returned true: one row per
\* true verdict, none for any other call.
C10_RowPerTrueVerdict ==
    /\ Len(DataRows(top10File)) = Len(TrueCalls)
    /\ \A k \in DOMAIN TrueCalls :
          /\ DataRows(top10File)[k].transaction_hash = TrueCalls[k].hash
    /\ Len(top10File) - Len(DataRows(top10File)) <= 1

C10_Witness ==
    /\ pc = "done"
    /\ Len(calls) = 3
    /\ calls[1].ret = "True" /\ calls[2].ret = "False" /\ calls[3].ret = "True"
    /\ calls[1].hash # calls[3].hash
    /\ Len(DataRows(top10File)) = 2

====
